---------------------------- MODULE Spec2Model ----------------------------
(***************************************************************************)
(* ETS CAN sniffer: the WiFi program (src/src/main_wifi.cpp) and the       *)
(* serial program (src/unnamed/part_000) as one state machine.  The        *)
(* variable variant says which of the two programs runs; it is chosen at   *)
(* start and never changes.                                                *)
(*                                                                         *)
(* Not modelled: millis(), startTime and the timestamp field of LogEntry   *)
(* (no clock), the text rendering of the responses, and the HTML page.     *)
(* Counters stay far below 2^32 within the bounds, so no wrap is modelled.  *)
(***************************************************************************)
EXTENDS Integers, Sequences, FiniteSets, TLC

(***************************************************************************)
(* Capacities.  The programs use 256, 500, 8, 39 and 100; the model runs   *)
(* the same code over smaller arrays.                                      *)
(***************************************************************************)
\* seenIds/idCounts/lastData length (MAX_UNIQUE_IDS, 256 in the source)
MAX_UNIQUE_IDS == 2

\* logBuffer length (LOG_BUFFER_SIZE, 500 in the source)
LOG_BUFFER_SIZE == 3

\* entries LogRows returns at most (100 in the source)
LOG_SNAPSHOT_MAX == 2

\* bytes of a payload buffer (8 in the source)
DATA_LEN == 2

\* characters of markText kept by strncpy (sizeof(markText) - 1, 39 in the source)
MARK_TEXT_MAX == 2

\* largest CAN identifier the bus delivers in the model
MaxId == 2

\* the model stops appending once nextSeq exceeds this
MaxSeq == 5

\* the model stops receiving once messageCount reaches this
MaxMsgs == 5

\* the model stops counting receive errors at this
MaxErrs == 2

\* passes of a trial window the pass-by-pass model follows
MaxPolls == 1

\* length of scanIds/scanIdCounts in handleScan and autoScan
SCAN_MAX_IDS == 64

\* number of candidate rates: rates[] = {BAUD_125K, BAUD_250K, BAUD_500K, BAUD_1M}
NUM_RATES == 4

VARIABLES
    variant,        \* "wifi" | "serial": which program runs
    pc,             \* "setup" | "loop" | "halted"
    currentBaud,    \* can_baud_t, 0..3
    canBaud,        \* rate of the latest CAN.begin (-1: none yet)
    canMode,        \* "off" | "listenonly" | "failed"
    messageCount,
    errorCount,
    seenIds,        \* [0..MAX_UNIQUE_IDS-1 -> id]
    idCounts,
    lastData,       \* WiFi only
    uniqueIdCount,
    logBuffer,      \* WiFi only: [0..LOG_BUFFER_SIZE-1 -> LogEntry]
    logHead,
    logCount,
    nextSeq,
    awaitingMark,   \* serial only
    scanPc,         \* "idle" | "init" | "window" | "finish": position in handleScan/autoScan
    scanR,          \* loop variable r of the scan
    bestRate,
    bestScore,
    trial,          \* the trial's locals: scanIds, scanIdCounts, scanUniqueIds,
                    \* scanMsgCount, scanErrCount (serial only)
    scanResults,    \* results emitted so far, one per candidate
    readerHigh,     \* a polling client: the highest "s" it has read from /log
    seenLog,        \* history: sequence numbers of the entries /log gave it
    seenAny,        \* history: those that /log or /csv gave it
    statusPending,  \* client: a status request is submitted and not yet answered
    calls,          \* history: record calls per identifier since the last reset
    rxErrors,       \* history: failed reads of the loop since the last reset
    hist,           \* history: entries appended since the last reset, oldest first
    issued          \* history: every sequence number ever assigned, in order

canVars   == <<currentBaud, canBaud, canMode>>
countVars == <<messageCount, errorCount>>
tableVars == <<seenIds, idCounts, lastData, uniqueIdCount>>
logVars   == <<logBuffer, logHead, logCount, nextSeq>>
scanVars  == <<scanPc, scanR, bestRate, bestScore, trial, scanResults>>
readerVars == <<readerHigh, seenLog, seenAny, statusPending>>
histVars  == <<calls, hist, issued, rxErrors>>
liveVars  == <<countVars, tableVars, logVars>>
vars == <<variant, pc, canVars, countVars, tableVars, logVars, awaitingMark,
          scanVars, readerVars, histVars>>

Ids   == 0..MaxId
Bytes == {0, 1}
Slots == 0..(MAX_UNIQUE_IDS - 1)
LogSlots == 0..(LOG_BUFFER_SIZE - 1)
Bauds == 0..(NUM_RATES - 1)
ScanSlots == 0..(SCAN_MAX_IDS - 1)

\* float 0
FZero == <<0, 0>>

\* the trial's locals after the two memsets
FreshTrial ==
    [scanIds |-> [i \in ScanSlots |-> 0], scanIdCounts |-> [i \in ScanSlots |-> 0],
     scanUniqueIds |-> 0, scanMsgCount |-> 0, scanErrCount |-> 0]

Min(a, b) == IF a < b THEN a ELSE b

\* a receive buffer uint8_t data[8]: bytes 1..dlc come from the frame, the
\* others are whatever the stack held
Buffers == [1..DATA_LEN -> Bytes]

ZeroData == [j \in 1..DATA_LEN |-> 0]

\* a zero-initialised LogEntry (logBuffer is a global)
ZeroEntry ==
    [seq |-> 0, id |-> 0, extended |-> FALSE, rtr |-> FALSE, dlc |-> 0,
     data |-> ZeroData, isMark |-> FALSE, markText |-> <<>>]

\* a copy of the whole source buffer, whatever n
Memcpy_whole(dst, src, n) == [j \in 1..DATA_LEN |-> src[j]]

\* memcpy(dst, src, n) on byte arrays indexed from 1
Memcpy(dst, src, n) == [j \in 1..DATA_LEN |-> IF j <= n THEN src[j] ELSE dst[j]]

\* strncpy(markText, text, sizeof - 1) followed by the terminating '\0'
Strncpy(text) == SubSeq(text, 1, Min(Len(text), MARK_TEXT_MAX))

RECURSIVE TrimLeft(_)
TrimLeft(s) == IF s # <<>> /\ Head(s) = " " THEN TrimLeft(Tail(s)) ELSE s

RECURSIVE TrimRight(_)
TrimRight(s) ==
    IF s # <<>> /\ s[Len(s)] = " " THEN TrimRight(SubSeq(s, 1, Len(s) - 1)) ELSE s

\* String::trim()
Trim(s) == TrimRight(TrimLeft(s))

Init ==
    /\ variant \in {"wifi", "serial"}
    /\ pc = "setup"
    /\ currentBaud = 1
    /\ canBaud = -1
    /\ canMode = "off"
    /\ messageCount = 0
    /\ errorCount = 0
    /\ seenIds = [i \in Slots |-> 0]
    /\ idCounts = [i \in Slots |-> 0]
    /\ lastData = [i \in Slots |-> ZeroData]
    /\ uniqueIdCount = 0
    /\ logBuffer = [i \in LogSlots |-> ZeroEntry]
    /\ logHead = 0
    /\ logCount = 0
    /\ nextSeq = 1
    /\ awaitingMark = FALSE
    /\ scanPc = "idle"
    /\ scanR = 0
    /\ bestRate = -1
    /\ bestScore = FZero
    /\ trial = FreshTrial
    /\ scanResults = <<>>
    /\ readerHigh = 0
    /\ seenLog = {}
    /\ seenAny = {}
    /\ statusPending = FALSE
    /\ calls = [i \in Ids |-> 0]
    /\ rxErrors = 0
    /\ hist = <<>>
    /\ issued = <<>>

\* initCAN(baud): ok is the result of CAN.begin
initCAN(baud, ok) ==
    /\ canBaud' = baud
    /\ canMode' = IF ok THEN "listenonly" ELSE "failed"

\* the index the search loop of findOrAddId stops at, or -1
FindIdx(id) ==
    IF \E i \in 0..(uniqueIdCount - 1) : seenIds[i] = id
    THEN CHOOSE i \in 0..(uniqueIdCount - 1) :
            /\ seenIds[i] = id
            /\ \A j \in 0..(i - 1) : seenIds[j] # id
    ELSE -1

\* what findOrAddId returns: the index of the record, or -1
findOrAddIdReturn(id) ==
    IF FindIdx(id) >= 0 THEN FindIdx(id)
    ELSE IF uniqueIdCount < MAX_UNIQUE_IDS THEN uniqueIdCount
    ELSE -1

\* findOrAddId that overwrites the last record when the table is full
findOrAddId_overwritesLast(id, data, dlc) ==
    LET i == FindIdx(id)
        last == MAX_UNIQUE_IDS - 1
    IN
    IF i >= 0
    THEN /\ idCounts' = [idCounts EXCEPT ![i] = @ + 1]
         /\ lastData' = [lastData EXCEPT ![i] = Memcpy(@, data, dlc)]
         /\ UNCHANGED <<seenIds, uniqueIdCount>>
    ELSE IF uniqueIdCount < MAX_UNIQUE_IDS
    THEN /\ seenIds' = [seenIds EXCEPT ![uniqueIdCount] = id]
         /\ idCounts' = [idCounts EXCEPT ![uniqueIdCount] = 1]
         /\ lastData' = [lastData EXCEPT ![uniqueIdCount] = Memcpy(@, data, dlc)]
         /\ uniqueIdCount' = uniqueIdCount + 1
    ELSE /\ seenIds' = [seenIds EXCEPT ![last] = id]
         /\ idCounts' = [idCounts EXCEPT ![last] = 1]
         /\ lastData' = [lastData EXCEPT ![last] = Memcpy(@, data, dlc)]
         /\ UNCHANGED uniqueIdCount

\* WiFi findOrAddId(id, data, dlc)
findOrAddId(id, data, dlc) ==
    LET i == FindIdx(id) IN
    IF i >= 0
    THEN /\ idCounts' = [idCounts EXCEPT ![i] = @ + 1]
         /\ lastData' = [lastData EXCEPT ![i] = Memcpy(@, data, dlc)]
         /\ UNCHANGED <<seenIds, uniqueIdCount>>
    ELSE IF uniqueIdCount < MAX_UNIQUE_IDS
    THEN /\ seenIds' = [seenIds EXCEPT ![uniqueIdCount] = id]
         /\ idCounts' = [idCounts EXCEPT ![uniqueIdCount] = 1]
         /\ lastData' = [lastData EXCEPT ![uniqueIdCount] = Memcpy(@, data, dlc)]
         /\ uniqueIdCount' = uniqueIdCount + 1
    ELSE UNCHANGED tableVars

\* serial findOrAddId(id)
findOrAddIdSerial(id) ==
    LET i == FindIdx(id) IN
    IF i >= 0
    THEN /\ idCounts' = [idCounts EXCEPT ![i] = @ + 1]
         /\ UNCHANGED <<seenIds, lastData, uniqueIdCount>>
    ELSE IF uniqueIdCount < MAX_UNIQUE_IDS
    THEN /\ seenIds' = [seenIds EXCEPT ![uniqueIdCount] = id]
         /\ idCounts' = [idCounts EXCEPT ![uniqueIdCount] = 1]
         /\ uniqueIdCount' = uniqueIdCount + 1
         /\ UNCHANGED lastData
    ELSE UNCHANGED tableVars

\* the entry addToLog writes
CaptureEntry(f) ==
    [seq |-> nextSeq, id |-> f.id, extended |-> f.extended, rtr |-> f.rtr,
     dlc |-> f.dlc, data |-> f.data, isMark |-> FALSE, markText |-> <<>>]

\* the entry addMarkToLog writes
MarkEntry(text) ==
    [seq |-> nextSeq, id |-> 0, extended |-> FALSE, rtr |-> FALSE, dlc |-> 0,
     data |-> ZeroData, isMark |-> TRUE, markText |-> Strncpy(text)]

\* the common tail of addToLog and addMarkToLog: write at logHead, advance
LogWrite(entry) ==
    /\ logBuffer' = [logBuffer EXCEPT ![logHead] = entry]
    /\ nextSeq' = nextSeq + 1
    /\ logHead' = (logHead + 1) % LOG_BUFFER_SIZE
    /\ logCount' = IF logCount < LOG_BUFFER_SIZE THEN logCount + 1 ELSE logCount

addToLog(f) == LogWrite(CaptureEntry(f))

\* addMarkToLog that writes at logHead without advancing or counting
addMarkToLog_keepsHead(text) ==
    /\ logBuffer' = [logBuffer EXCEPT ![logHead] = MarkEntry(text)]
    /\ nextSeq' = nextSeq + 1
    /\ UNCHANGED <<logHead, logCount>>

addMarkToLog(text) == LogWrite(MarkEntry(text))

(***************************************************************************)
(* float arithmetic of the scan.  A float is <<m, e>>, the value m * 2^e    *)
(* with 2^23 <= m < 2^24, or FZero.  Division and the product with 0.1f     *)
(* round to nearest, ties to even, as IEEE 754 binary32 does.              *)
(***************************************************************************)
TwoTo22 == 2^22
TwoTo23 == 2^23
TwoTo24 == 2^24

\* round a 24-bit mantissa m with the next bit (rnd) and the rest (sticky)
FRound(m, e, rnd, sticky) ==
    LET up == rnd = 1 /\ (sticky \/ m % 2 = 1)
        m1 == IF up THEN m + 1 ELSE m
    IN  IF m1 = TwoTo24 THEN <<TwoTo23, e + 1>> ELSE <<m1, e>>

\* long division: shift quotient bits in until 25 are there
RECURSIVE DivBits(_, _, _, _)
DivBits(m, r, b, e) ==
    IF m >= TwoTo24
    THEN <<m, r, e>>
    ELSE IF 2 * r >= b
         THEN DivBits(2 * m + 1, 2 * r - b, b, e - 1)
         ELSE DivBits(2 * m, 2 * r, b, e - 1)

\* (float)a / (float)b for 1 <= a < 2^24, 1 <= b < 2^24
FDiv(a, b) ==
    LET d == DivBits(a \div b, a % b, b, 0)
    IN  FRound(d[1] \div 2, d[3] + 1, d[1] % 2, d[2] # 0)

\* x * 0.1f, where 0.1f = 13421773 * 2^-27 = (3276 * 4096 + 3277) * 2^-27
FMulTenth(x) ==
    IF x = FZero THEN FZero
    ELSE
    LET mh  == x[1] \div 4096
        ml  == x[1] % 4096
        mid == mh * 3277 + ml * 3276
        lo0 == ml * 3277 + (mid % 4096) * 4096
        hi  == mh * 3276 + (mid \div 4096) + (lo0 \div TwoTo24)
        lo  == lo0 % TwoTo24
    IN  IF hi >= TwoTo23
        THEN FRound(hi, x[2] - 3,
                    IF lo >= TwoTo23 THEN 1 ELSE 0, lo % TwoTo23 # 0)
        ELSE FRound(2 * hi + (lo \div TwoTo23), x[2] - 4,
                    IF lo % TwoTo23 >= TwoTo22 THEN 1 ELSE 0, lo % TwoTo22 # 0)

\* x > y on floats that are not negative
FGt(x, y) ==
    IF x = FZero THEN FALSE
    ELSE IF y = FZero THEN TRUE
    ELSE x[2] > y[2] \/ (x[2] = y[2] /\ x[1] > y[1])

\* the int 10 converted to float: 1.25 * 2^3
FTen == <<10485760, -20>>

(***************************************************************************)
(* setup() and the steady-state loop                                       *)
(***************************************************************************)
\* a setup() that goes on to loop() whatever initCAN returned
setup_entersLoopAnyway ==
    /\ pc = "setup"
    /\ \E ok \in BOOLEAN :
          /\ initCAN(currentBaud, ok)
          /\ pc' = "loop"
    /\ UNCHANGED <<variant, readerVars, currentBaud, liveVars, awaitingMark, scanVars, histVars>>

\* setup(): the first initCAN; on failure while(1) delay(1000)
setup ==
    /\ pc = "setup"
    /\ \E ok \in BOOLEAN :
          /\ initCAN(currentBaud, ok)
          /\ pc' = IF ok THEN "loop" ELSE "halted"
    /\ UNCHANGED <<variant, readerVars, currentBaud, liveVars, awaitingMark, scanVars, histVars>>

Running == pc = "loop" /\ scanPc = "idle"

\* WiFi loop(), readMsgBuf returned CAN_OK with frame f
loopRxWifi(F) ==
    /\ Running /\ variant = "wifi"
    /\ nextSeq <= MaxSeq /\ messageCount < MaxMsgs
    /\ \E f \in F :
          /\ messageCount' = messageCount + 1
          /\ findOrAddId(f.id, f.data, f.dlc)
          /\ addToLog(f)
          /\ calls' = [calls EXCEPT ![f.id] = @ + 1]
          /\ rxErrors' = rxErrors
          /\ hist' = Append(hist, logBuffer'[logHead])
          /\ issued' = Append(issued, logBuffer'[logHead].seq)
    /\ UNCHANGED <<variant, readerVars, pc, canVars, errorCount, awaitingMark, scanVars>>

\* WiFi loop(), readMsgBuf returned an error: there is no else branch
loopRxErrWifi ==
    /\ Running /\ variant = "wifi"
    /\ rxErrors < MaxErrs
    /\ rxErrors' = rxErrors + 1
    /\ UNCHANGED <<variant, readerVars, pc, canVars, liveVars, awaitingMark, scanVars,
                   calls, hist, issued>>

\* serial loop(), readMsgBuf returned CAN_OK with frame f
loopRxSerial(F) ==
    /\ Running /\ variant = "serial"
    /\ messageCount < MaxMsgs
    /\ \E f \in F :
          /\ messageCount' = messageCount + 1
          /\ findOrAddIdSerial(f.id)
          /\ calls' = [calls EXCEPT ![f.id] = @ + 1]
          /\ rxErrors' = rxErrors
    /\ UNCHANGED <<variant, readerVars, pc, canVars, errorCount, logVars, awaitingMark, scanVars,
                   hist, issued>>

\* serial loop(), readMsgBuf returned an error
loopRxErrSerial ==
    /\ Running /\ variant = "serial"
    /\ errorCount < MaxErrs
    /\ errorCount' = errorCount + 1
    /\ rxErrors' = rxErrors + 1
    /\ UNCHANGED <<variant, readerVars, pc, canVars, messageCount, tableVars, logVars,
                   awaitingMark, scanVars, calls, hist, issued>>

(***************************************************************************)
(* WiFi request handlers                                                   *)
(***************************************************************************)
\* handleClear that leaves messageCount as it is
handleClear_keepsCount ==
    /\ Running /\ variant = "wifi"
    /\ errorCount' = 0
    /\ uniqueIdCount' = 0
    /\ logHead' = 0
    /\ logCount' = 0
    /\ calls' = [i \in Ids |-> 0]
    /\ rxErrors' = 0
    /\ hist' = <<>>
    /\ UNCHANGED <<variant, readerVars, pc, canVars, messageCount, seenIds, idCounts, lastData,
                   logBuffer, nextSeq, awaitingMark, scanVars, issued>>

\* handleClear that also restarts the sequence counter
handleClear_restartsSeq ==
    /\ Running /\ variant = "wifi"
    /\ messageCount' = 0
    /\ errorCount' = 0
    /\ uniqueIdCount' = 0
    /\ logHead' = 0
    /\ logCount' = 0
    /\ nextSeq' = 1
    /\ calls' = [i \in Ids |-> 0]
    /\ rxErrors' = 0
    /\ hist' = <<>>
    /\ UNCHANGED <<variant, readerVars, pc, canVars, seenIds, idCounts, lastData, logBuffer,
                   awaitingMark, scanVars, issued>>

\* handleClear that forgets the entries but keeps the write position
handleClear_keepsHead ==
    /\ Running /\ variant = "wifi"
    /\ messageCount' = 0
    /\ errorCount' = 0
    /\ uniqueIdCount' = 0
    /\ logCount' = 0
    /\ calls' = [i \in Ids |-> 0]
    /\ rxErrors' = 0
    /\ hist' = <<>>
    /\ UNCHANGED <<variant, readerVars, pc, canVars, seenIds, idCounts, lastData, logBuffer,
                   logHead, nextSeq, awaitingMark, scanVars, issued>>

\* handleClear()
handleClear ==
    /\ Running /\ variant = "wifi"
    /\ messageCount' = 0
    /\ errorCount' = 0
    /\ uniqueIdCount' = 0
    /\ logHead' = 0
    /\ logCount' = 0
    /\ calls' = [i \in Ids |-> 0]
    /\ rxErrors' = 0
    /\ hist' = <<>>
    /\ UNCHANGED <<variant, readerVars, pc, canVars, seenIds, idCounts, lastData, logBuffer,
                   nextSeq, awaitingMark, scanVars, issued>>

\* handleMark(): hasArg says whether ?msg= is present
handleMark(T) ==
    /\ Running /\ variant = "wifi"
    /\ \E hasArg \in BOOLEAN, msg \in T :
          IF hasArg /\ Len(Trim(msg)) > 0
          THEN /\ nextSeq <= MaxSeq
               /\ addMarkToLog(Trim(msg))
               /\ hist' = Append(hist, logBuffer'[logHead])
               /\ issued' = Append(issued, logBuffer'[logHead].seq)
          ELSE UNCHANGED <<logVars, hist, issued>>
    /\ UNCHANGED <<variant, readerVars, pc, canVars, countVars, tableVars, awaitingMark,
                   scanVars, calls, rxErrors>>

\* the switch of handleBaud: v = server.arg("v").toInt()
BaudOfArg(v, cur) ==
    CASE v = 1 -> 0
      [] v = 2 -> 1
      [] v = 3 -> 2
      [] v = 4 -> 3
      [] OTHER -> cur

\* handleBaud()
handleBaud ==
    /\ Running /\ variant = "wifi"
    /\ \E hasArg \in BOOLEAN, v \in 0..5, ok \in BOOLEAN :
          IF hasArg
          THEN /\ currentBaud' = BaudOfArg(v, currentBaud)
               /\ initCAN(BaudOfArg(v, currentBaud), ok)
          ELSE UNCHANGED canVars
    /\ UNCHANGED <<variant, readerVars, pc, liveVars, awaitingMark, scanVars, histVars>>

\* a start index clamped at 0 instead of wrapped
LogStart_clamped(count) == IF logHead - count < 0 THEN 0 ELSE logHead - count

\* where LogRows starts to walk: (logHead - count + LOG_BUFFER_SIZE) % LOG_BUFFER_SIZE
LogStart(count) == (logHead - count + LOG_BUFFER_SIZE) % LOG_BUFFER_SIZE

\* the entries handleLog() walks, in the order it walks them
LogWalk ==
    LET count == Min(LOG_SNAPSHOT_MAX, logCount)
    IN  [i \in 1..count |-> logBuffer[(LogStart(count) + i - 1) % LOG_BUFFER_SIZE]]

\* what handleLog() writes for one entry
LogJson(e) ==
    IF e.isMark
    THEN [s |-> e.seq, mark |-> e.markText]
    ELSE [s |-> e.seq, id |-> e.id, dlc |-> e.dlc, data |-> SubSeq(e.data, 1, e.dlc)]

\* the response of handleLog()
LogRows == [i \in 1..Len(LogWalk) |-> LogJson(LogWalk[i])]

\* a walk that always starts at logHead
CsvStart_alwaysHead == logHead

\* where CsvRows starts to walk
CsvStart == IF logCount < LOG_BUFFER_SIZE THEN 0 ELSE logHead

\* the entries handleCSV() walks, in the order it walks them
CsvWalk == [i \in 1..logCount |-> logBuffer[(CsvStart + i - 1) % LOG_BUFFER_SIZE]]

\* the row handleCSV() writes for one entry
CsvRow(e) ==
    IF e.isMark
    THEN [id |-> "MARK", extended |-> 0, rtr |-> 0, dlc |-> 0, data |-> e.markText]
    ELSE [id |-> e.id, extended |-> IF e.extended THEN 1 ELSE 0,
          rtr |-> IF e.rtr THEN 1 ELSE 0, dlc |-> e.dlc,
          data |-> SubSeq(e.data, 1, e.dlc)]

\* the rows of handleCSV() after the header line
CsvRows == [i \in 1..Len(CsvWalk) |-> CsvRow(CsvWalk[i])]

\* the sequence numbers of the entries of a walk
SeqsOf(walk) == {walk[i].seq : i \in 1..Len(walk)}

Max(a, b) == IF a > b THEN a ELSE b

\* the largest "s" of a /log response, or h for an empty one
HighOf(walk, h) == IF walk = <<>> THEN h ELSE Max(h, walk[Len(walk)].seq)

\* the JSON of handleStatus()
StatusJson ==
    [running |-> TRUE, baud |-> currentBaud, messages |-> messageCount,
     errors |-> errorCount, uniqueIds |-> uniqueIdCount]

\* the JSON of handleIds(): all bytes of lastData, whatever the frame's length
IdsJson ==
    [i \in 1..uniqueIdCount |->
       [id |-> seenIds[i - 1], count |-> idCounts[i - 1], data |-> lastData[i - 1]]]

\* a client sends GET /status, or the operator types 's'
submitStatus ==
    /\ ~statusPending
    /\ statusPending' = TRUE
    /\ UNCHANGED <<variant, pc, canVars, liveVars, awaitingMark, scanVars, histVars,
                   readerHigh, seenLog, seenAny>>

\* handleStatus(), called from server.handleClient() in loop()
handleStatus ==
    /\ Running /\ variant = "wifi"
    /\ statusPending
    /\ statusPending' = FALSE
    /\ UNCHANGED <<variant, pc, canVars, liveVars, awaitingMark, scanVars, histVars,
                   readerHigh, seenLog, seenAny>>

\* handleIds()
handleIds ==
    /\ Running /\ variant = "wifi"
    /\ UNCHANGED vars

\* a handleLog that hands the entries over and empties the log
handleLog_drains ==
    /\ Running /\ variant = "wifi"
    /\ readerHigh' = HighOf(LogWalk, readerHigh)
    /\ seenLog' = seenLog \cup SeqsOf(LogWalk)
    /\ seenAny' = seenAny \cup SeqsOf(LogWalk)
    /\ logHead' = 0 /\ logCount' = 0
    /\ UNCHANGED <<variant, pc, canVars, countVars, tableVars, logBuffer, nextSeq,
                   awaitingMark, scanVars, histVars, statusPending>>

\* handleLog(), requested by the polling client, which keeps the last "s"
handleLog ==
    /\ Running /\ variant = "wifi"
    /\ readerHigh' = HighOf(LogWalk, readerHigh)
    /\ seenLog' = seenLog \cup SeqsOf(LogWalk)
    /\ seenAny' = seenAny \cup SeqsOf(LogWalk)
    /\ UNCHANGED <<variant, pc, canVars, liveVars, awaitingMark, scanVars, histVars,
                   statusPending>>

\* handleCSV(), requested by the polling client; the rows carry no "s"
handleCSV ==
    /\ Running /\ variant = "wifi"
    /\ seenAny' = seenAny \cup SeqsOf(CsvWalk)
    /\ UNCHANGED <<variant, pc, canVars, liveVars, awaitingMark, scanVars, histVars,
                   readerHigh, seenLog, statusPending>>

(***************************************************************************)
(* serial commands                                                         *)
(***************************************************************************)
\* clearCounts()
clearCounts ==
    /\ messageCount' = 0
    /\ errorCount' = 0
    /\ uniqueIdCount' = 0
    /\ seenIds' = [i \in Slots |-> 0]
    /\ idCounts' = [i \in Slots |-> 0]
    /\ UNCHANGED lastData

\* '1'..'4' dispatched whether or not a mark line is awaited
cmdBaud_ignoresAwaiting ==
    /\ Running /\ variant = "serial"
    /\ \E b \in Bauds, ok \in BOOLEAN :
          /\ currentBaud' = b
          /\ initCAN(b, ok)
    /\ clearCounts
    /\ calls' = [i \in Ids |-> 0]
    /\ rxErrors' = 0
    /\ UNCHANGED <<variant, readerVars, pc, logVars, awaitingMark, scanVars, hist, issued>>

\* serial loop(), a command character while not awaiting a mark: '1'..'4'
cmdBaud ==
    /\ Running /\ variant = "serial" /\ ~awaitingMark
    /\ \E b \in Bauds, ok \in BOOLEAN :
          /\ currentBaud' = b
          /\ initCAN(b, ok)
    /\ clearCounts
    /\ calls' = [i \in Ids |-> 0]
    /\ rxErrors' = 0
    /\ UNCHANGED <<variant, readerVars, pc, logVars, awaitingMark, scanVars, hist, issued>>

\* 'c' or 'C'
cmdClear ==
    /\ Running /\ variant = "serial" /\ ~awaitingMark
    /\ clearCounts
    /\ calls' = [i \in Ids |-> 0]
    /\ rxErrors' = 0
    /\ UNCHANGED <<variant, readerVars, pc, canVars, logVars, awaitingMark, scanVars, hist, issued>>

\* 'm' or 'M'
cmdMark ==
    /\ Running /\ variant = "serial" /\ ~awaitingMark
    /\ awaitingMark' = TRUE
    /\ UNCHANGED <<variant, readerVars, pc, canVars, liveVars, scanVars, histVars>>

\* 's' or 'S': printStatus() for a request the operator typed
cmdStatus ==
    /\ Running /\ variant = "serial" /\ ~awaitingMark
    /\ statusPending
    /\ statusPending' = FALSE
    /\ UNCHANGED <<variant, pc, canVars, liveVars, awaitingMark, scanVars, histVars,
                   readerHigh, seenLog, seenAny>>

\* 's', 'h', '?' and every character the switch has no case for: output only
cmdOther ==
    /\ Running /\ variant = "serial" /\ ~awaitingMark
    /\ UNCHANGED vars

\* a line read while awaitingMark: printed as a MARK row when not empty
markLine(T) ==
    /\ Running /\ variant = "serial" /\ awaitingMark
    /\ \E text \in T : awaitingMark' = FALSE
    /\ UNCHANGED <<variant, readerVars, pc, canVars, liveVars, scanVars, histVars>>

(***************************************************************************)
(* the scan: handleScan() of the WiFi program, autoScan() of the serial    *)
(* one.  The handler blocks the loop, so its steps are the only ones       *)
(* enabled from scanBegin to scanCommit.                                   *)
(***************************************************************************)
\* can_baud_t rates[] = { BAUD_125K, BAUD_250K, BAUD_500K, BAUD_1M }, by r + 1
rates == <<0, 1, 2, 3>>

\* the body of "if (CAN.readMsgBuf(...) == CAN_OK)" in the trial window
ScanRecord(t, canId) ==
    LET found == \E i \in 0..(t.scanUniqueIds - 1) : t.scanIds[i] = canId
        at == CHOOSE i \in 0..(t.scanUniqueIds - 1) :
                 /\ t.scanIds[i] = canId
                 /\ \A j \in 0..(i - 1) : t.scanIds[j] # canId
        n == t.scanUniqueIds
    IN  IF found
        THEN [t EXCEPT !.scanMsgCount = @ + 1, !.scanIdCounts[at] = @ + 1]
        ELSE IF n < SCAN_MAX_IDS
        THEN [t EXCEPT !.scanMsgCount = @ + 1, !.scanIds[n] = canId,
                       !.scanIdCounts[n] = 1, !.scanUniqueIds = n + 1]
        ELSE [t EXCEPT !.scanMsgCount = @ + 1]

\* one pass of the while loop with the interrupt pin low: poll.ok says whether
\* readMsgBuf returned CAN_OK; only autoScan has the else branch
ScanStep(t, poll, v) ==
    IF poll.ok THEN ScanRecord(t, poll.id)
    ELSE IF v = "serial" THEN [t EXCEPT !.scanErrCount = @ + 1]
    ELSE t

\* float repeatRate
RepeatRate(t) ==
    IF t.scanUniqueIds > 0 /\ t.scanMsgCount > 0
    THEN FDiv(t.scanMsgCount, t.scanUniqueIds)
    ELSE FZero

\* a verdict whose repeat-rate test is >= instead of >
Verdict_atLeastTen(t) ==
    IF t.scanMsgCount = 0 THEN "NO DATA"
    ELSE IF t.scanUniqueIds <= 20 /\ ~FGt(FTen, RepeatRate(t)) THEN "LIKELY CORRECT"
    ELSE IF t.scanUniqueIds > 30 THEN "Noise"
    ELSE "Uncertain"

\* const char* verdict (the WiFi strings; autoScan prints the same four cases)
Verdict(t) ==
    IF t.scanMsgCount = 0 THEN "NO DATA"
    ELSE IF t.scanUniqueIds <= 20 /\ FGt(RepeatRate(t), FTen) THEN "LIKELY CORRECT"
    ELSE IF t.scanUniqueIds > 30 THEN "Noise"
    ELSE "Uncertain"

\* a score that only a LIKELY CORRECT verdict can earn
Score_byVerdict(t) ==
    IF Verdict(t) = "LIKELY CORRECT" THEN RepeatRate(t) ELSE FZero

\* a score without the noise penalty
Score_noPenalty(t) == RepeatRate(t)

\* float score
Score(t) ==
    IF t.scanUniqueIds > 30 THEN FMulTenth(RepeatRate(t)) ELSE RepeatRate(t)

\* the identifiers attached to a result
IdList(t) ==
    IF t.scanUniqueIds > 0 /\ t.scanUniqueIds <= 20
    THEN [i \in 1..t.scanUniqueIds |-> <<t.scanIds[i - 1], t.scanIdCounts[i - 1]>>]
    ELSE <<>>

\* the result emitted for a trialed candidate
TrialResult(r, t) ==
    [baud |-> rates[r + 1], msgs |-> t.scanMsgCount, ids |-> t.scanUniqueIds,
     repeat |-> RepeatRate(t), verdict |-> Verdict(t), idList |-> IdList(t)]

\* the result emitted when initCAN fails
InitFailResult(r) ==
    [baud |-> rates[r + 1], msgs |-> 0, ids |-> 0, repeat |-> FZero,
     verdict |-> "INIT FAIL", idList |-> <<>>]

\* a comparison that also replaces the best on a tie
IsBetter_orEqual(score, best) == ~FGt(best, score)

\* if (score > bestScore)
IsBetter(score, best) == FGt(score, best)

\* where the for loop goes after candidate r
AfterCandidate(r) == IF r + 1 < NUM_RATES THEN "init" ELSE "finish"

\* GET /scan, or 'a' / 'A' on the serial line
scanBegin ==
    /\ Running
    /\ variant = "serial" => ~awaitingMark
    /\ scanPc' = "init"
    /\ scanR' = 0
    /\ bestRate' = -1
    /\ bestScore' = FZero
    /\ scanResults' = <<>>
    /\ UNCHANGED <<variant, readerVars, pc, canVars, liveVars, awaitingMark, trial, histVars>>

\* a for loop that a failed initCAN ends
scanInit_abortsOnFail ==
    /\ pc = "loop" /\ scanPc = "init"
    /\ \E ok \in BOOLEAN :
          /\ initCAN(rates[scanR + 1], ok)
          /\ IF ok
             THEN /\ trial' = FreshTrial
                  /\ scanPc' = "window"
                  /\ UNCHANGED <<scanR, scanResults>>
             ELSE /\ scanResults' = Append(scanResults, InitFailResult(scanR))
                  /\ scanR' = scanR + 1
                  /\ scanPc' = "finish"
                  /\ UNCHANGED trial
    /\ UNCHANGED <<variant, readerVars, pc, currentBaud, liveVars, awaitingMark, bestRate,
                   bestScore, histVars>>

\* top of the for loop: initCAN(rates[r]) and the trial's fresh locals
scanInit ==
    /\ pc = "loop" /\ scanPc = "init"
    /\ \E ok \in BOOLEAN :
          /\ initCAN(rates[scanR + 1], ok)
          /\ IF ok
             THEN /\ trial' = FreshTrial
                  /\ scanPc' = "window"
                  /\ UNCHANGED <<scanR, scanResults>>
             ELSE /\ scanResults' = Append(scanResults, InitFailResult(scanR))
                  /\ scanR' = scanR + 1
                  /\ scanPc' = AfterCandidate(scanR)
                  /\ UNCHANGED trial
    /\ UNCHANGED <<variant, readerVars, pc, currentBaud, liveVars, awaitingMark, bestRate,
                   bestScore, histVars>>

\* a pass of the while loop that also counts the frame in messageCount
scanPoll_countsLive(P) ==
    /\ pc = "loop" /\ scanPc = "window"
    /\ trial.scanMsgCount + trial.scanErrCount < MaxPolls
    /\ \E poll \in P : trial' = ScanStep(trial, poll, variant)
    /\ messageCount' = messageCount + 1
    /\ UNCHANGED <<variant, readerVars, pc, canVars, errorCount, tableVars, logVars,
                   awaitingMark, scanPc, scanR, bestRate, bestScore, scanResults, histVars>>

\* one pass of the while loop in which the interrupt pin is low
scanPoll(P) ==
    /\ pc = "loop" /\ scanPc = "window"
    /\ trial.scanMsgCount + trial.scanErrCount < MaxPolls
    /\ \E poll \in P : trial' = ScanStep(trial, poll, variant)
    /\ UNCHANGED <<variant, readerVars, pc, canVars, liveVars, awaitingMark, scanPc, scanR,
                   bestRate, bestScore, scanResults, histVars>>

\* traffic of one window: n frames that cycle through k identifiers, then
\* errs failed reads
Patterns ==
    { [n |-> 0,   k |-> 0,   errs |-> 1],
      [n |-> 120, k |-> 6,   errs |-> 0],
      [n |-> 200, k |-> 50,  errs |-> 0],
      [n |-> 150, k |-> 15,  errs |-> 0],
      [n |-> 201, k |-> 20,  errs |-> 0],
      [n |-> 231, k |-> 21,  errs |-> 0],
      [n |-> 30,  k |-> 30,  errs |-> 0],
      [n |-> 31,  k |-> 31,  errs |-> 0],
      [n |-> 640, k |-> 64,  errs |-> 0],
      [n |-> 3100, k |-> 31,  errs |-> 0],
      [n |-> 6500, k |-> 100, errs |-> 0] }

\* what the i-th pass of the while loop reads under pattern p
PatternPoll(p, i) ==
    IF i <= p.n THEN [ok |-> TRUE, id |-> (i - 1) % p.k] ELSE [ok |-> FALSE, id |-> 0]

\* the while loop over passes lo..hi of pattern p, split in halves; t is read
\* before the passes run, which keeps the evaluation depth logarithmic in the
\* number of passes
RECURSIVE Window(_, _, _, _, _)
Window(t, p, lo, hi, v) ==
    IF lo > hi \/ t.scanMsgCount < 0 THEN t
    ELSE IF lo = hi THEN ScanStep(t, PatternPoll(p, lo), v)
    ELSE LET mid == (lo + hi) \div 2
         IN  Window(Window(t, p, lo, mid, v), p, mid + 1, hi, v)

\* the trial's locals when the window closes, per program and pattern
WindowOutcome ==
    [v \in {"wifi", "serial"} |->
        [p \in Patterns |-> Window(FreshTrial, p, 1, p.n + p.errs, v)]]

\* a whole window: the while loop from scanStart to the deadline
scanWindow ==
    /\ pc = "loop" /\ scanPc = "window"
    /\ trial = FreshTrial
    /\ \E p \in Patterns : trial' = WindowOutcome[variant][p]
    /\ UNCHANGED <<variant, readerVars, pc, canVars, liveVars, awaitingMark, scanPc,
                   scanR, bestRate, bestScore, scanResults, histVars>>

\* the window is over: score, verdict, result, best so far
scanEvaluate ==
    /\ pc = "loop" /\ scanPc = "window"
    /\ scanResults' = Append(scanResults, TrialResult(scanR, trial))
    /\ IF IsBetter(Score(trial), bestScore)
       THEN bestScore' = Score(trial) /\ bestRate' = scanR
       ELSE UNCHANGED <<bestScore, bestRate>>
    /\ scanR' = scanR + 1
    /\ scanPc' = AfterCandidate(scanR)
    /\ trial' = FreshTrial
    /\ UNCHANGED <<variant, readerVars, pc, canVars, liveVars, awaitingMark, histVars>>

\* a handleScan that returns without the final initCAN
CommitWifi_skipsRearm(ok) ==
    /\ currentBaud' = IF bestRate >= 0 THEN rates[bestRate + 1] ELSE currentBaud
    /\ UNCHANGED <<canBaud, canMode, liveVars, histVars>>

\* after the for loop, handleScan()
CommitWifi(ok) ==
    /\ currentBaud' = IF bestRate >= 0 THEN rates[bestRate + 1] ELSE currentBaud
    /\ initCAN(IF bestRate >= 0 THEN rates[bestRate + 1] ELSE currentBaud, ok)
    /\ UNCHANGED <<liveVars, histVars>>

\* an autoScan that clears the counts whether or not a rate was selected
CommitSerial_alwaysClears(ok) ==
    /\ currentBaud' = IF bestRate >= 0 THEN rates[bestRate + 1] ELSE currentBaud
    /\ initCAN(IF bestRate >= 0 THEN rates[bestRate + 1] ELSE currentBaud, ok)
    /\ clearCounts
    /\ calls' = [i \in Ids |-> 0]
    /\ rxErrors' = 0
    /\ UNCHANGED <<logVars, hist, issued>>

\* after the for loop, autoScan()
CommitSerial(ok) ==
    IF bestRate >= 0
    THEN /\ currentBaud' = rates[bestRate + 1]
         /\ initCAN(rates[bestRate + 1], ok)
         /\ clearCounts
         /\ calls' = [i \in Ids |-> 0]
         /\ rxErrors' = 0
         /\ UNCHANGED <<logVars, hist, issued>>
    ELSE /\ initCAN(currentBaud, ok)
         /\ UNCHANGED <<currentBaud, liveVars, histVars>>

\* the scan returns
scanCommit ==
    /\ pc = "loop" /\ scanPc = "finish"
    /\ \E ok \in BOOLEAN :
          IF variant = "wifi" THEN CommitWifi(ok) ELSE CommitSerial(ok)
    /\ scanPc' = "idle"
    /\ UNCHANGED <<variant, readerVars, pc, awaitingMark, scanR, bestRate, bestScore, trial,
                   scanResults>>

(***************************************************************************)
(* inputs and specifications                                               *)
(***************************************************************************)
\* frames of the live bus: every identifier, full-length payload
LiveFrames ==
    [id : Ids, extended : {FALSE}, rtr : {FALSE}, dlc : {DATA_LEN},
     data : {[j \in 1..DATA_LEN |-> 1]}]

\* annotation texts: one that survives trim() and one that does not
MarkTexts == {<<"a">>, <<" ">>}

\* the capture loop with its requests, no scan
NextLive ==
    \/ setup
    \/ loopRxWifi(LiveFrames)
    \/ loopRxErrWifi
    \/ loopRxSerial(LiveFrames)
    \/ loopRxErrSerial
    \/ handleClear
    \/ handleMark(MarkTexts)
    \/ cmdBaud
    \/ cmdClear
    \/ cmdMark
    \/ cmdOther
    \/ markLine(MarkTexts)

Spec == Init /\ [][NextLive]_vars

\* frames of one identifier: the log entries differ by their sequence numbers
ReaderFrames ==
    [id : {1}, extended : {FALSE}, rtr : {FALSE}, dlc : {DATA_LEN},
     data : {[j \in 1..DATA_LEN |-> 1]}]

\* the WiFi program with a client that polls /log and /csv
NextReader ==
    \/ setup
    \/ loopRxWifi(ReaderFrames)
    \/ handleMark({<<"a">>})
    \/ handleClear
    \/ handleLog
    \/ handleCSV
    \/ handleIds
    \/ submitStatus
    \/ handleStatus

\* the WiFi program after construction
InitWifi == Init /\ variant = "wifi"

\* scans over whole windows, both programs
NextEval ==
    \/ setup
    \/ scanBegin
    \/ scanInit
    \/ scanWindow
    \/ scanEvaluate
    \/ scanCommit

SpecEval == Init /\ [][NextEval]_vars

\* what a pass of a trial window reads: a frame, or a failed read
ScanPolls == {[ok |-> TRUE, id |-> 0], [ok |-> FALSE, id |-> 0]}

\* capture and scans pass by pass, both programs
NextScan ==
    \/ setup
    \/ loopRxWifi(ReaderFrames)
    \/ loopRxSerial(ReaderFrames)
    \/ loopRxErrSerial
    \/ scanBegin
    \/ scanInit
    \/ scanPoll(ScanPolls)
    \/ scanEvaluate
    \/ scanCommit

SpecScan == Init /\ [][NextScan]_vars

\* the same, with a clock that advances: each window reaches its deadline,
\* and the statements before and after a window run to completion
\* the serial capture loop on a bus that is busy until the first scan
loopBeforeScan ==
    /\ scanResults = <<>>
    /\ loopRxSerial(ReaderFrames)

NextTrials ==
    \/ setup
    \/ loopBeforeScan
    \/ scanBegin
    \/ scanInit
    \/ scanPoll(ScanPolls)
    \/ scanEvaluate
    \/ scanCommit

SpecScanFair ==
    Init /\ [][NextTrials]_vars
         /\ WF_vars(scanInit \/ scanEvaluate \/ scanCommit)

\* capture, scans pass by pass and rate changes, both programs
NextRates ==
    \/ setup
    \/ loopRxWifi(ReaderFrames)
    \/ loopRxSerial(ReaderFrames)
    \/ handleBaud
    \/ cmdBaud
    \/ scanBegin
    \/ scanInit
    \/ scanPoll(ScanPolls)
    \/ scanEvaluate
    \/ scanCommit

SpecRates == Init /\ [][NextRates]_vars

\* capture with rate changes requested over /baud or the keys '1'..'4'
NextBaud ==
    \/ setup
    \/ loopRxWifi(ReaderFrames)
    \/ loopRxErrWifi
    \/ loopRxSerial(ReaderFrames)
    \/ loopRxErrSerial
    \/ handleBaud
    \/ cmdBaud

SpecBaud == Init /\ [][NextBaud]_vars

\* the serial program with its commands and scans
NextSerial ==
    \/ setup
    \/ loopRxSerial(ReaderFrames)
    \/ loopRxErrSerial
    \/ cmdBaud
    \/ cmdClear
    \/ cmdMark
    \/ cmdOther
    \/ markLine(MarkTexts)
    \/ scanBegin
    \/ scanInit
    \/ scanPoll(ScanPolls)
    \/ scanEvaluate
    \/ scanCommit

InitSerial == Init /\ variant = "serial"

SpecSerial == InitSerial /\ [][NextSerial]_vars

\* frames that differ in length and payload: one identifier with a full
\* payload of ones, with shorter payloads in a buffer of zeros and with no
\* payload in a buffer of ones; a second identifier with a full payload
PayloadFrames ==
    {[id |-> 0, extended |-> FALSE, rtr |-> FALSE, dlc |-> DATA_LEN,
      data |-> [j \in 1..DATA_LEN |-> 1]],
     [id |-> 0, extended |-> FALSE, rtr |-> FALSE, dlc |-> 0,
      data |-> [j \in 1..DATA_LEN |-> 1]],
     [id |-> 1, extended |-> FALSE, rtr |-> FALSE, dlc |-> DATA_LEN,
      data |-> [j \in 1..DATA_LEN |-> 1]]}
    \cup {[id |-> 0, extended |-> FALSE, rtr |-> FALSE, dlc |-> n, data |-> ZeroData] :
             n \in 0..(DATA_LEN - 1)}

\* the WiFi program capturing frames of several lengths, with /clear
NextPayload ==
    \/ setup
    \/ loopRxWifi(PayloadFrames)
    \/ handleClear

SpecPayload == InitWifi /\ [][NextPayload]_vars

\* both programs with a client that asks for the status; loop() keeps
\* calling server.handleClient() and Serial.available(), so a request that
\* can be served is served
NextDiag ==
    \/ setup
    \/ loopRxWifi(ReaderFrames)
    \/ loopRxErrWifi
    \/ loopRxSerial(ReaderFrames)
    \/ loopRxErrSerial
    \/ cmdMark
    \/ markLine(MarkTexts)
    \/ submitStatus
    \/ handleStatus
    \/ cmdStatus

SpecDiag ==
    Init /\ [][NextDiag]_vars /\ WF_vars(handleStatus) /\ WF_vars(cmdStatus)
           /\ WF_vars(markLine(MarkTexts))

SpecReader == InitWifi /\ [][NextReader]_vars

(***************************************************************************)
(* Identifier Table                                                        *)
(***************************************************************************)
Held == {seenIds[i] : i \in 0..(uniqueIdCount - 1)}

\* C1: whatever record calls and resets happened, the table holds at most
\* MAX_UNIQUE_IDS records, no identifier twice, and each record's count is the
\* number of record calls made with its identifier since the last reset.
C1_TableCountsExact ==
    /\ uniqueIdCount \in 0..MAX_UNIQUE_IDS
    /\ \A i, j \in 0..(uniqueIdCount - 1) : i # j => seenIds[i] # seenIds[j]
    /\ \A i \in 0..(uniqueIdCount - 1) : idCounts[i] = calls[seenIds[i]]

\* a full table, a dropped identifier, a repeated one, after a reset
C1_Witness ==
    /\ variant = "wifi"
    /\ uniqueIdCount = MAX_UNIQUE_IDS
    /\ \E id \in Ids : calls[id] > 0 /\ id \notin Held
    /\ \E i \in Slots : idCounts[i] >= 2
    /\ Len(issued) > Len(hist)

(***************************************************************************)
(* Event Log                                                               *)
(***************************************************************************)
\* C2: the sequence numbers assigned by addToLog and addMarkToLog are 1, 2,
\* 3, ... in the order of the appends, and no step, handleClear included,
\* lowers nextSeq.
C2_SeqConsecutive ==
    /\ [](\A i \in 1..Len(issued) : issued[i] = i)
    /\ [][nextSeq' >= nextSeq]_vars

\* an annotation appended right after a reset continues the numbering
C2_Witness ==
    /\ Len(hist) = 1
    /\ Len(issued) >= 3
    /\ logBuffer[0].isMark
    /\ logBuffer[0].seq = Len(issued)

\* the last k entries of the history
LastOf(h, k) == SubSeq(h, Len(h) - k + 1, Len(h))

\* entries retained since the last reset
Retained == Min(Len(hist), LOG_BUFFER_SIZE)

\* C3: LogRows returns the min(LOG_SNAPSHOT_MAX, retained) most recently
\* appended entries since the last reset, oldest first.
C3_SnapshotIsRecentTail ==
    LET k == Min(LOG_SNAPSHOT_MAX, Retained)
    IN  /\ LogWalk = LastOf(hist, k)
        /\ LogRows = [i \in 1..k |-> LogJson(LastOf(hist, k)[i])]

\* a full snapshot whose walk wraps around the end of the buffer, after
\* evictions and an earlier reset
C3_Witness ==
    /\ Len(hist) > LOG_BUFFER_SIZE
    /\ Len(issued) > Len(hist)
    /\ Len(LogRows) = LOG_SNAPSHOT_MAX
    /\ LogStart(LOG_SNAPSHOT_MAX) > logHead
    /\ LogRows[LOG_SNAPSHOT_MAX].s = nextSeq - 1

\* C4: after LOG_BUFFER_SIZE + m appends without a reset CsvRows returns
\* LOG_BUFFER_SIZE entries, appends m+1 .. LOG_BUFFER_SIZE+m in order; with
\* fewer appends since the last reset it returns all of them, oldest first.
C4_DrainAllIsRetained ==
    LET m == Len(hist) - LOG_BUFFER_SIZE
    IN  /\ m > 0 => /\ Len(CsvWalk) = LOG_BUFFER_SIZE
                    /\ \A i \in 1..LOG_BUFFER_SIZE : CsvWalk[i] = hist[m + i]
        /\ m <= 0 => CsvWalk = hist
        /\ CsvRows = [i \in 1..Retained |-> CsvRow(LastOf(hist, Retained)[i])]

\* the log wrapped (entries were evicted) after an earlier reset
C4_Witness ==
    /\ Len(hist) > LOG_BUFFER_SIZE
    /\ Len(issued) > Len(hist)
    /\ Len(CsvRows) = LOG_BUFFER_SIZE
    /\ logHead # 0

(***************************************************************************)
(* a polling reader                                                        *)
(***************************************************************************)
\* the sequence numbers of a walk go up by one
Consecutive(walk) == \A i \in 1..(Len(walk) - 1) : walk[i + 1].seq = walk[i].seq + 1

\* C5 as stated: results are consecutive; an entry a poll (/log or /csv)
\* returns that the reader had not seen has a sequence number above
\* readerHigh; and when /log returns entries, some entry above readerHigh is
\* not among them exactly when the oldest returned one exceeds readerHigh + 1.
C5_AsStated ==
    /\ [](Consecutive(LogWalk) /\ Consecutive(CsvWalk))
    /\ [][handleLog => \A q \in SeqsOf(LogWalk) \ seenAny : q > readerHigh]_vars
    /\ [][handleCSV => \A q \in SeqsOf(CsvWalk) \ seenAny : q > readerHigh]_vars
    /\ [][handleLog /\ LogWalk # <<>> =>
            ((\E q \in 1..Len(issued) : q > readerHigh /\ q \notin SeqsOf(LogWalk))
               <=> LogWalk[1].seq > readerHigh + 1)]_vars

\* C5, amended: the second part holds of what /log returns, and of every
\* entry appended later (readerHigh stays below nextSeq, also across a
\* reset); /csv can return an older entry that /log left out.
C5_ReaderGaps ==
    /\ [](Consecutive(LogWalk) /\ Consecutive(CsvWalk))
    /\ [](readerHigh < nextSeq)
    /\ [][handleLog => \A q \in SeqsOf(LogWalk) \ seenLog : q > readerHigh]_vars
    /\ [][handleLog /\ LogWalk # <<>> =>
            ((\E q \in 1..Len(issued) : q > readerHigh /\ q \notin SeqsOf(LogWalk))
               <=> LogWalk[1].seq > readerHigh + 1)]_vars

\* the reader polled before and after a reset and has a gap: an entry
\* appended between two of its polls that no /log response held
C5_Witness ==
    /\ Len(issued) > Len(hist)
    /\ readerHigh = nextSeq - 1
    /\ \E q \in seenLog : q <= Len(issued) - Len(hist)
    /\ \E q \in 1..readerHigh : q \notin seenLog /\ q > 1 /\ (q - 1) \in seenLog


(***************************************************************************)
(* scan: selection and verdict                                             *)
(***************************************************************************)
\* every candidate of the scan has its result
ScanDone == Len(scanResults) = NUM_RATES

\* the score of a result, from the figures the result reports
ResultScore(res) == IF res.ids > 30 THEN FMulTenth(res.repeat) ELSE res.repeat

\* the scores of the candidates trialed so far, in the declared order
Scores == [i \in 1..Len(scanResults) |-> ResultScore(scanResults[i])]

\* the float 0.4f
FFourTenths == <<13421773, -25>>

\* C6: after the candidates are trialed in the declared order the selected
\* candidate is the one with the strictly highest score, the earliest of the
\* candidates sharing the highest score, and no candidate is selected when no
\* score exceeds zero; when only 250k yields frames (120 frames, 6
\* identifiers) 250k is selected with verdict LIKELY CORRECT
C6_SelectsStrictlyHighest ==
    /\ (\A i \in DOMAIN Scores : ~FGt(Scores[i], FZero)) => bestRate = -1
    /\ (\E i \in DOMAIN Scores : FGt(Scores[i], FZero)) =>
          /\ bestRate + 1 \in DOMAIN Scores
          /\ \A j \in DOMAIN Scores : ~FGt(Scores[j], Scores[bestRate + 1])
          /\ \A j \in 1..bestRate : FGt(Scores[bestRate + 1], Scores[j])
    /\ ( /\ ScanDone
         /\ scanResults[2].msgs = 120 /\ scanResults[2].ids = 6
         /\ \A i \in {1, 3, 4} : scanResults[i].msgs = 0 )
       => /\ bestRate = 1 /\ rates[bestRate + 1] = 1
          /\ scanResults[2].verdict = "LIKELY CORRECT"
          /\ \A i \in {1, 3, 4} : scanResults[i].verdict \in {"NO DATA", "INIT FAIL"}

\* a finished scan in which only 250k yielded frames, 120 of 6 identifiers
C6_Witness ==
    /\ ScanDone /\ scanPc = "idle"
    /\ scanResults[2].msgs = 120 /\ scanResults[2].ids = 6
    /\ \A i \in {1, 3, 4} : scanResults[i].verdict = "NO DATA"
    /\ bestRate = 1

\* the verdict rule in whole numbers
RuleVerdict(frameCount, uniqueIds) ==
    IF frameCount = 0 THEN "NO DATA"
    ELSE IF uniqueIds <= 20 /\ frameCount > 10 * uniqueIds THEN "LIKELY CORRECT"
    ELSE IF uniqueIds > 30 THEN "Noise"
    ELSE "Uncertain"

\* C7: for every trial outcome the verdict is NO DATA without frames, else
\* LIKELY CORRECT with at most 20 identifiers and more than 10 frames per
\* identifier, else Noise with more than 30 identifiers, else Uncertain
C7_VerdictRule ==
    /\ \A i \in DOMAIN scanResults :
          scanResults[i].verdict # "INIT FAIL" =>
             scanResults[i].verdict = RuleVerdict(scanResults[i].msgs, scanResults[i].ids)
    /\ scanPc = "window" =>
          /\ Verdict(trial) = RuleVerdict(trial.scanMsgCount, trial.scanUniqueIds)
          /\ trial.scanUniqueIds = 0 <=> trial.scanMsgCount = 0

\* a finished scan whose four trials got the four verdicts
C7_Witness ==
    /\ ScanDone
    /\ {scanResults[i].verdict : i \in 1..NUM_RATES} =
          {"NO DATA", "LIKELY CORRECT", "Noise", "Uncertain"}

\* result i reports frameCount frames of uniqueIds identifiers
Yields(i, frameCount, uniqueIds) ==
    scanResults[i].msgs = frameCount /\ scanResults[i].ids = uniqueIds

\* C8: the retained best is the raw score of the selected candidate and no
\* candidate of any verdict scores above it; 200 frames of 50 identifiers
\* score 0.4, 150 frames of 15 identifiers have repeat rate exactly 10 and
\* verdict Uncertain, and a scan with these two and no other traffic selects
\* the second
C8_SelectionByScoreOnly ==
    /\ bestScore = IF bestRate >= 0 THEN Scores[bestRate + 1] ELSE FZero
    /\ \A i \in DOMAIN Scores : ~FGt(Scores[i], bestScore)
    /\ \A i \in DOMAIN scanResults :
          /\ Yields(i, 200, 50) =>
                Scores[i] = FFourTenths /\ scanResults[i].verdict = "Noise"
          /\ Yields(i, 150, 15) =>
                scanResults[i].repeat = FTen /\ scanResults[i].verdict = "Uncertain"
    /\ ScanDone =>
          \A i, j \in 1..NUM_RATES :
             ( /\ Yields(i, 200, 50) /\ Yields(j, 150, 15)
               /\ \A k \in 1..NUM_RATES \ {i, j} : scanResults[k].msgs = 0 )
             => bestRate = j - 1

\* a finished scan that selected the Uncertain candidate over the Noise one
C8_Witness ==
    /\ ScanDone /\ scanPc = "idle"
    /\ \E i, j \in 1..NUM_RATES :
          /\ Yields(i, 200, 50) /\ Yields(j, 150, 15)
          /\ scanResults[j].verdict = "Uncertain"
          /\ bestRate = j - 1

(***************************************************************************)
(* scan: the live state                                                    *)
(***************************************************************************)
\* C9: while a scan is trialing candidate rates the live identifier table,
\* the live log, the sequence counter and the live message and error
\* counters do not change; what a trial observes is held in the trial's own
\* locals, which are gone when the trial ends
C9_TrialLeavesLiveUnchanged ==
    /\ [](scanPc # "window" => trial = FreshTrial)
    /\ [][(scanPc = "init" \/ scanPc = "window") => (UNCHANGED liveVars)]_vars
    /\ [][scanPc = "idle" /\ scanPc' # "idle" => (UNCHANGED liveVars)]_vars
    /\ [][scanPc = "window" /\ scanPc' = "window" =>
            (UNCHANGED <<canVars, scanResults, bestRate, bestScore>>)]_vars

\* a trial that has recorded a frame while the live table and log hold captures
C9_Witness ==
    /\ scanPc = "window" /\ scanR >= 1
    /\ trial.scanMsgCount > 0
    /\ messageCount > 0 /\ uniqueIdCount > 0

\* C10: when a scan has selected a rate, on return the CAN controller is
\* configured at the selected rate, currentBaud is the selected rate, and the
\* live identifier table, the counters and the log are empty
C10_AsStated ==
    [][scanPc = "finish" /\ scanPc' = "idle" /\ bestRate >= 0 =>
          /\ canBaud' = rates[bestRate + 1]
          /\ currentBaud' = rates[bestRate + 1]
          /\ uniqueIdCount' = 0
          /\ messageCount' = 0
          /\ logCount' = 0]_vars

\* C11: when no candidate scores above zero the scan selects nothing, and
\* from its first step to its return currentBaud, the live identifier table,
\* the live log and the counters keep their values; the return calls initCAN
\* with the rate that was live before the scan
C11_NoSelectionKeepsLive ==
    /\ [](scanPc = "finish" /\ (\A i \in DOMAIN Scores : ~FGt(Scores[i], FZero))
            => bestRate < 0)
    /\ [][(scanPc' # "idle" \/ (scanPc = "finish" /\ bestRate < 0)) =>
            (UNCHANGED <<currentBaud, liveVars>>)]_vars
    /\ [][scanPc = "finish" /\ bestRate < 0 =>
            scanPc' = "idle" /\ canBaud' = currentBaud]_vars

\* a scan that found no traffic has returned over a live table with captures
C11_Witness ==
    /\ scanPc = "idle" /\ ScanDone /\ bestRate = -1
    /\ \E i \in 1..NUM_RATES : scanResults[i].verdict = "NO DATA"
    /\ canBaud = currentBaud
    /\ messageCount > 0 /\ uniqueIdCount > 0

\* C12: a candidate whose initCAN fails gets a result with zero counts and
\* verdict INIT FAIL, is never the selected one, and the scan goes on with the
\* next candidate; the results are one per candidate in the declared order
C12_InitFailureSkipsCandidate ==
    /\ [](/\ Len(scanResults) = scanR
          /\ scanPc = "finish" => ScanDone
          /\ \A i \in DOMAIN scanResults :
                /\ scanResults[i].baud = rates[i]
                /\ scanResults[i].verdict = "INIT FAIL" =>
                      /\ scanResults[i].msgs = 0 /\ scanResults[i].ids = 0
                      /\ bestRate # i - 1)
    /\ [][scanPc = "init" /\ canMode' # "listenonly" =>
            /\ Len(scanResults') = Len(scanResults) + 1
            /\ scanResults'[scanR + 1].verdict = "INIT FAIL"
            /\ scanR' = scanR + 1
            /\ scanPc' = IF scanR + 1 < NUM_RATES THEN "init" ELSE "finish"
            /\ UNCHANGED <<bestRate, bestScore, liveVars>>]_vars

\* a finished scan whose first and third candidates failed to configure and
\* whose last candidate was selected
C12_Witness ==
    /\ ScanDone /\ scanPc = "idle"
    /\ scanResults[1].verdict = "INIT FAIL" /\ scanResults[3].verdict = "INIT FAIL"
    /\ scanResults[2].verdict = "NO DATA"
    /\ bestRate = 3

(***************************************************************************)
(* rate changes, table overflow, receive errors, reset                     *)
(***************************************************************************)
\* C13: a request that changes the bit rate leaves the controller set up at
\* the requested rate and the live identifier table, the live log and the
\* message and error counters empty
C13_AsStated ==
    [][(handleBaud \/ cmdBaud) /\ currentBaud' # currentBaud =>
          /\ canBaud' = currentBaud'
          /\ uniqueIdCount' = 0
          /\ messageCount' = 0 /\ errorCount' = 0
          /\ logCount' = 0]_vars

\* C14: with MAX_UNIQUE_IDS records in the table, a frame with a new
\* identifier makes findOrAddId return -1 and leaves the table as it is, a
\* frame with a held identifier adds one to that record's count, and in the
\* WiFi program either frame is appended to the log under the next sequence
\* number
C14_FullTableDropsNewIds ==
    [][(\A id \in Ids :
          calls'[id] = calls[id] + 1 /\ uniqueIdCount = MAX_UNIQUE_IDS =>
             /\ messageCount' = messageCount + 1
             /\ IF FindIdx(id) >= 0
                THEN /\ findOrAddIdReturn(id) = FindIdx(id)
                     /\ idCounts' = [idCounts EXCEPT ![FindIdx(id)] = @ + 1]
                     /\ UNCHANGED <<seenIds, uniqueIdCount>>
                ELSE /\ findOrAddIdReturn(id) = -1
                     /\ UNCHANGED tableVars
             /\ variant = "wifi" =>
                   /\ nextSeq' = nextSeq + 1
                   /\ logBuffer'[logHead].seq = nextSeq
                   /\ logBuffer'[logHead].id = id
                   /\ ~logBuffer'[logHead].isMark
                   /\ logHead' = (logHead + 1) % LOG_BUFFER_SIZE)]_vars

\* the table is full, the newest log entry is a frame whose identifier the
\* table does not hold, and a held identifier has been counted twice
C14_Witness ==
    /\ variant = "wifi" /\ uniqueIdCount = MAX_UNIQUE_IDS /\ logCount > 0
    /\ \E id \in Ids :
          /\ calls[id] > 0 /\ FindIdx(id) = -1
          /\ logBuffer[(logHead - 1 + LOG_BUFFER_SIZE) % LOG_BUFFER_SIZE].id = id
          /\ ~logBuffer[(logHead - 1 + LOG_BUFFER_SIZE) % LOG_BUFFER_SIZE].isMark
    /\ \E i \in 0..(uniqueIdCount - 1) : idCounts[i] >= 2

\* C15: a failed read in the loop adds exactly one to errorCount, leaves
\* the identifier table, the log, the sequence counter and messageCount as
\* they are, and the loop goes on
C15_AsStated ==
    [][rxErrors' = rxErrors + 1 =>
          /\ errorCount' = errorCount + 1
          /\ UNCHANGED <<messageCount, tableVars, logVars>>
          /\ pc' = "loop"]_vars

\* the table and the log are empty and both counters are zero
Cleared ==
    /\ messageCount = 0 /\ errorCount = 0
    /\ uniqueIdCount = 0
    /\ logCount = 0 /\ logHead = 0

\* C16: a reset leaves the table and the log empty and the counters zero and
\* does not change the sequence counter; a reset of a state that is already
\* so changes nothing, hence two resets in a row leave what one leaves
C16_ResetIdempotent ==
    /\ [][(handleClear \/ cmdClear) => Cleared' /\ nextSeq' = nextSeq]_vars
    /\ [][(handleClear \/ cmdClear) /\ Cleared =>
            (UNCHANGED <<pc, canVars, liveVars, awaitingMark, scanVars>>)]_vars

\* the WiFi program right after a reset that followed logged frames
C16_Witness ==
    /\ variant = "wifi" /\ pc = "loop"
    /\ Cleared /\ hist = <<>>
    /\ Len(issued) > 0 /\ nextSeq = Len(issued) + 1

(***************************************************************************)
(* annotations                                                             *)
(***************************************************************************)
\* C17: an append, annotation or capture alike, takes the next sequence
\* number and the slot at logHead and nothing else; what handleCSV walks
\* afterwards is what it walked before, without its oldest entry if the log
\* was full, followed by the new entry; the new entry is an annotation
\* exactly when the step counted no frame
C17_MarkSharesSeqAndSlots ==
    /\ [](Consecutive(CsvWalk) /\ Len(CsvWalk) = Retained)
    /\ [][nextSeq' = nextSeq + 1 =>
            /\ logBuffer'[logHead].seq = nextSeq
            /\ logBuffer'[logHead].isMark <=> messageCount' = messageCount
            /\ \A i \in LogSlots \ {logHead} : logBuffer'[i] = logBuffer[i]
            /\ logHead' = (logHead + 1) % LOG_BUFFER_SIZE
            /\ logCount' = Min(logCount + 1, LOG_BUFFER_SIZE)
            /\ CsvWalk' = (IF logCount < LOG_BUFFER_SIZE THEN CsvWalk ELSE Tail(CsvWalk))
                             \o <<logBuffer'[logHead]>>]_vars

\* an annotation appended to a full log sits between two captures in what
\* handleCSV walks
C17_Witness ==
    /\ Len(hist) >= LOG_BUFFER_SIZE + 2
    /\ hist[Len(hist) - 1].isMark /\ Len(hist) - 1 > LOG_BUFFER_SIZE
    /\ ~hist[Len(hist) - 2].isMark /\ ~hist[Len(hist)].isMark
    /\ CsvWalk[logCount - 1].isMark
    /\ CsvWalk[logCount - 2].seq + 1 = CsvWalk[logCount - 1].seq
    /\ CsvWalk[logCount - 1].seq + 1 = CsvWalk[logCount].seq

\* C18: the serial loop is in one of two states, awaitingMark or not; 'm'
\* sets awaitingMark and nothing else; while awaitingMark a step is either a
\* capture, which leaves awaitingMark set, or the input line, which clears
\* awaitingMark and triggers no rate change, reset or scan; captures are
\* possible in both states
C18_AwaitingMarkConsumesInput ==
    /\ [](awaitingMark \in BOOLEAN /\ (awaitingMark => pc = "loop" /\ scanPc = "idle"))
    /\ [](pc = "loop" /\ scanPc = "idle" /\ messageCount < MaxMsgs
            => ENABLED loopRxSerial(ReaderFrames))
    /\ [][~awaitingMark /\ awaitingMark' =>
            (UNCHANGED <<pc, canVars, liveVars, scanVars>>)]_vars
    /\ [][awaitingMark =>
            \/ /\ ~awaitingMark'
               /\ UNCHANGED <<pc, canVars, liveVars, scanVars>>
            \/ /\ awaitingMark'
               /\ UNCHANGED <<pc, canVars, scanVars, logVars>>
               /\ messageCount' = messageCount + 1 \/ errorCount' = errorCount + 1
               /\ messageCount' >= messageCount /\ errorCount' >= errorCount
               /\ uniqueIdCount' >= uniqueIdCount]_vars

\* a mark line is awaited in a loop that holds captures, a failed read and
\* the results of an earlier scan
C18_Witness ==
    /\ awaitingMark
    /\ messageCount > 0 /\ errorCount > 0
    /\ ScanDone

(***************************************************************************)
(* the CAN controller                                                      *)
(***************************************************************************)
\* C19: whenever the loop or a trial window reads the controller, the latest
\* initCAN has put the controller in listen-only mode, also when some
\* initCAN before failed
C19_AsStated ==
    [][(\/ messageCount' = messageCount + 1
        \/ rxErrors' = rxErrors + 1
        \/ scanPc = "window" /\ scanPc' = "window") =>
          canMode = "listenonly"]_vars

\* C20: when the initCAN of setup() fails the program halts: loop() is
\* never entered, no step is taken from then on, and no frame has been read,
\* recorded in the identifier table or appended to the log
C20_StartupFailureHalts ==
    /\ [][pc = "setup" /\ canMode' # "listenonly" => pc' = "halted"]_vars
    /\ [][pc # "halted"]_vars
    /\ [](pc = "halted" =>
            /\ canMode = "failed" /\ scanPc = "idle"
            /\ messageCount = 0 /\ errorCount = 0 /\ rxErrors = 0
            /\ uniqueIdCount = 0 /\ \A id \in Ids : calls[id] = 0
            /\ logCount = 0 /\ nextSeq = 1 /\ issued = <<>>)

\* the program has halted in setup() after a failed initCAN
C20_Witness == pc = "halted" /\ canMode = "failed" /\ canBaud = currentBaud

\* C21: a rate request after startup whose initCAN fails leaves currentBaud
\* at the rate that was live before the request
C21_AsStated ==
    [][(handleBaud \/ cmdBaud) /\ canMode' = "failed" =>
          currentBaud' = currentBaud]_vars

(***************************************************************************)
(* payload bytes of the identifier table                                   *)
(***************************************************************************)
\* C22: a frame of length L whose identifier the table holds overwrites
\* bytes 0..L-1 of that record's lastData with the payload, leaves the bytes
\* from L on as they were, adds one to the record's count and changes no other
\* record
C22_MatchOverwritesPrefix ==
    [][(\A id \in Ids :
          calls'[id] = calls[id] + 1 /\ FindIdx(id) >= 0 =>
             LET i == FindIdx(id)
                 e == logBuffer'[logHead]
             IN  /\ e.id = id
                 /\ \A j \in 1..DATA_LEN :
                       lastData'[i][j] = IF j <= e.dlc THEN e.data[j] ELSE lastData[i][j]
                 /\ idCounts'[i] = idCounts[i] + 1
                 /\ uniqueIdCount' = uniqueIdCount /\ seenIds' = seenIds
                 /\ \A k \in Slots \ {i} :
                       lastData'[k] = lastData[k] /\ idCounts'[k] = idCounts[k])]_vars

\* a record counted twice whose first byte is from a short frame and whose
\* last byte is from the full frame before it, next to a second record
C22_Witness ==
    /\ uniqueIdCount = 2
    /\ \E i \in 0..(uniqueIdCount - 1) :
          /\ idCounts[i] >= 2
          /\ lastData[i][1] = 0 /\ lastData[i][DATA_LEN] = 1

(***************************************************************************)
(* requests that read                                                      *)
(***************************************************************************)
\* C23: handleLog, handleCSV, handleIds and handleStatus leave the log
\* buffer, logHead, logCount, nextSeq, the identifier table and the counters
\* as they are; a slot of the log buffer changes only when an append writes
\* the entry with the next sequence number into the slot at logHead
C23_ReadsNeverMutate ==
    /\ [][(handleLog \/ handleCSV \/ handleIds \/ handleStatus) =>
            (UNCHANGED <<pc, canVars, liveVars, scanVars>>)]_vars
    /\ [][(\A i \in LogSlots :
             logBuffer'[i] # logBuffer[i] =>
                /\ i = logHead
                /\ nextSeq' = nextSeq + 1
                /\ logBuffer'[i].seq = nextSeq)]_vars

\* the client has polled /log and /csv over a full log and has had its
\* status request answered
C23_Witness ==
    /\ logCount = LOG_BUFFER_SIZE
    /\ readerHigh = nextSeq - 1
    /\ seenAny \ seenLog # {}
    /\ ~statusPending /\ StatusJson.messages > 0

\* C24: a status request that is pending after the program has halted in
\* setup() is eventually answered
C24_AsStated == (pc = "halted" /\ statusPending) ~> ~statusPending

\* C25: a scan terminates; it trials every candidate once, in the declared
\* order, a failed read or a failed configuration neither ends it early nor
\* repeats a candidate, and nothing is captured or appended live before it
\* returns
C25_ScanTerminatesInOrder ==
    /\ (scanPc # "idle") ~> (scanPc = "idle" /\ ScanDone)
    /\ [](scanPc # "idle" =>
            /\ Len(scanResults) = scanR
            /\ \A i \in 1..Len(scanResults) : scanResults[i].baud = rates[i]
            /\ (scanPc = "finish") = (scanR = NUM_RATES)
            /\ (scanPc = "window" => scanR < NUM_RATES /\ canBaud = rates[scanR + 1]))
    /\ [][scanPc # "idle" =>
            /\ scanR' = scanR \/ scanR' = scanR + 1
            /\ (scanR' = scanR + 1 =>
                   /\ SubSeq(scanResults', 1, scanR) = scanResults
                   /\ scanPc = "init" \/ scanPc = "window")
            /\ (scanPc = "window" /\ scanPc' = "window" => scanR' = scanR)
            /\ (scanPc' # "idle" => (UNCHANGED <<liveVars, histVars>>))
            /\ (UNCHANGED <<logVars, hist>>)
            /\ messageCount' <= messageCount
            /\ \A id \in Ids : calls'[id] <= calls[id]]_vars

C25_Witness ==
    /\ scanPc = "idle" /\ ScanDone
    /\ scanResults[1].verdict = "INIT FAIL"
    /\ scanResults[2].msgs > 0
    /\ scanResults[NUM_RATES].verdict = "NO DATA"
    /\ variant = "serial" /\ bestRate = 1 /\ canBaud = rates[2]

\* C26: the log's indices stay in range, logHead equals logCount until the
\* buffer has filled, and every append (a captured frame or a mark) is
\* stored at logHead with the next sequence number: none is rejected
C26_LogStructure ==
    /\ [](/\ logHead \in 0..(LOG_BUFFER_SIZE - 1)
          /\ logCount \in 0..LOG_BUFFER_SIZE
          /\ (logCount < LOG_BUFFER_SIZE => logHead = logCount))
    /\ [][(variant = "wifi" /\ messageCount' = messageCount + 1) \/ issued' # issued =>
            /\ issued' = Append(issued, nextSeq)
            /\ nextSeq' = nextSeq + 1
            /\ logBuffer'[logHead].seq = nextSeq
            /\ logHead' = (logHead + 1) % LOG_BUFFER_SIZE
            /\ logCount' = Min(logCount + 1, LOG_BUFFER_SIZE)]_vars

C26_Witness ==
    /\ logCount = LOG_BUFFER_SIZE /\ logHead = 1
    /\ Len(hist) = LOG_BUFFER_SIZE + 1
    /\ hist[Len(hist)].isMark

\* the occurrences of the first n records of the table, added up
RECURSIVE SumCounts(_)
SumCounts(n) == IF n = 0 THEN 0 ELSE idCounts[n - 1] + SumCounts(n - 1)

\* some record call since the last reset found the table full
FullSinceReset == \E id \in Ids : calls[id] > 0 /\ FindIdx(id) < 0

\* C27: the occurrences of the table add up to at most messageCount, and to
\* exactly messageCount while no record call has found the table full since
\* the last reset; a received frame adds one to messageCount, makes one
\* record call and, in the WiFi program, one append
C27_CountsAddUp ==
    /\ [](/\ SumCounts(uniqueIdCount) <= messageCount
          /\ (~FullSinceReset => SumCounts(uniqueIdCount) = messageCount))
    /\ [][messageCount' # messageCount \/ calls' # calls =>
            \/ /\ messageCount' = messageCount + 1
               /\ \E id \in Ids : calls' = [calls EXCEPT ![id] = @ + 1]
               /\ (variant = "wifi" => issued' = Append(issued, nextSeq))
               /\ (variant = "serial" => issued' = issued)
            \/ /\ messageCount' = 0 /\ uniqueIdCount' = 0
               /\ calls' = [id \in Ids |-> 0]
               /\ issued' = issued]_vars

C27_Witness ==
    /\ FullSinceReset
    /\ SumCounts(uniqueIdCount) = messageCount - 2
    /\ \E i \in Slots : idCounts[i] = 2 /\ i < uniqueIdCount

\* C28: a record inserted by a frame of length L holds the payload in
\* bytes 0..L-1 and zero in the bytes from L on
C28_AsStated ==
    [][(\A id \in Ids :
          calls'[id] = calls[id] + 1 /\ FindIdx(id) < 0 /\ uniqueIdCount < MAX_UNIQUE_IDS =>
             LET e == logBuffer'[logHead]
             IN  /\ seenIds'[uniqueIdCount] = id
                 /\ \A j \in 1..DATA_LEN :
                       lastData'[uniqueIdCount][j] = IF j <= e.dlc THEN e.data[j] ELSE 0)]_vars

\* C29 as stated: when some candidate has verdict LIKELY CORRECT the
\* selected rate does not have verdict Noise
C29_AsStated ==
    (ScanDone /\ \E i \in 1..NUM_RATES : scanResults[i].verdict = "LIKELY CORRECT")
       => /\ bestRate >= 0
          /\ scanResults[bestRate + 1].verdict # "Noise"

\* every Noise result has at most 100 frames per counted identifier
NoiseWithinHundred ==
    \A i \in DOMAIN scanResults :
       scanResults[i].verdict = "Noise" => scanResults[i].msgs <= 100 * scanResults[i].ids

\* C29: when some candidate has verdict LIKELY CORRECT and every Noise
\* candidate has at most 100 frames per counted identifier, the selected
\* rate does not have verdict Noise
C29_PenaltyUpToHundred ==
    ( /\ ScanDone
      /\ \E i \in 1..NUM_RATES : scanResults[i].verdict = "LIKELY CORRECT"
      /\ NoiseWithinHundred )
       => /\ bestRate >= 0
          /\ scanResults[bestRate + 1].verdict # "Noise"

\* a finished scan with 3100 frames of 31 identifiers in one window and 201
\* frames of 20 identifiers in another, which selected the second
C29_Witness ==
    /\ ScanDone /\ scanPc = "idle" /\ NoiseWithinHundred
    /\ \E i, j \in 1..NUM_RATES :
          /\ Yields(i, 3100, 31) /\ scanResults[i].verdict = "Noise"
          /\ Yields(j, 201, 20) /\ scanResults[j].verdict = "LIKELY CORRECT"
          /\ i < j /\ bestRate = j - 1

\* C30: whenever the capture loop can poll for a live frame the rate last
\* requested of the controller is currentBaud; a reconfigure request and the
\* return of a scan leave the two equal, while a trial window runs at the
\* candidate's rate
C30_ArmedAtCurrentBaud ==
    /\ [](Running => canBaud = currentBaud)
    /\ [](pc = "loop" /\ scanPc = "window" => canBaud = rates[scanR + 1])
    /\ [][handleBaud \/ cmdBaud \/ scanCommit => canBaud' = currentBaud']_vars

\* back in the capture loop after a scan that trialed the last candidate,
\* selected nothing and had a candidate that failed to configure
C30_Witness ==
    /\ Running /\ ScanDone /\ bestRate = -1
    /\ scanResults[NUM_RATES].verdict = "NO DATA"
    /\ scanResults[1].verdict = "INIT FAIL"
    /\ currentBaud # rates[NUM_RATES]
    /\ canBaud = currentBaud

=========================================================================
